---- MODULE Spec2Model ----
(***************************************************************************)
(* Model of src/lib/ai/gemini.ts: the external model caller (callOpenAI),  *)
(* the analyzer (analyzeScreenshot), the reporter (generateReport) and the *)
(* category validator (validateActivityType).                              *)
(*                                                                         *)
(* Text is a TLA+ string (Len, \o and SubSeq act on it as on a JavaScript  *)
(* string); the source's Chinese literals are given in English.  A         *)
(* JavaScript value read from JSON is a tagged record.  A JavaScript       *)
(* number that takes part in division is an IEEE-754 double, kept as a     *)
(* 53-bit significand and a binary exponent.                               *)
(***************************************************************************)
EXTENDS Integers, Sequences, FiniteSets, TLC

(***************************************************************************)
(* Bounds of the model.                                                    *)
(***************************************************************************)
\* longest list of analyses enumerated record by record
MaxLen == 2
\* longest run of one activity type in the run-shaped lists of Spec
MaxRun == 4
\* longest run of one activity type in the run-shaped lists of SpecRuns
MaxLongRun == 23
\* most distinct application names cycled through in a run-shaped list
MaxApps == 6
\* session durations 0..MaxDuration (and the 60 minutes of the example)
MaxDuration == 2
\* longest activity_log array the external model answers with
MaxLogLen == 11

(***************************************************************************)
(* JavaScript values.                                                      *)
(***************************************************************************)
Undefined == [t |-> "undefined"]
Null == [t |-> "null"]
Str(s) == [t |-> "string", s |-> s]
Num(n) == [t |-> "number", n |-> n]
Arr(a) == [t |-> "array", a |-> a]
\* an object is the sequence of its <<key, value>> pairs, in key order
Obj(o) == [t |-> "object", o |-> o]

\* ToBoolean, as  ||  and  ?:  apply it
Truthy(v) ==
  CASE v.t = "undefined" -> FALSE
    [] v.t = "null" -> FALSE
    [] v.t = "string" -> v.s # ""
    [] v.t = "number" -> v.n # 0
    [] OTHER -> TRUE

\* a || b
OrElse(a, b) == IF Truthy(a) THEN a ELSE b

\* v == null, the test of optional chaining
Nullish(v) == v.t \in {"undefined", "null"}

\* v[key] for a value that is not nullish; own JSON properties only
Get(v, key) ==
  IF v.t = "object" /\ \E i \in 1..Len(v.o) : v.o[i][1] = key
  THEN v.o[CHOOSE i \in 1..Len(v.o) :
              /\ v.o[i][1] = key
              /\ \A j \in (i+1)..Len(v.o) : v.o[j][1] # key][2]
  ELSE Undefined

\* v[0]
GetIndex0(v) ==
  IF v.t = "array" /\ Len(v.a) > 0 THEN v.a[1] ELSE Undefined

(***************************************************************************)
(* Text helpers.                                                           *)
(***************************************************************************)
\* s.slice(0, n)
Slice(s, n) == IF Len(s) <= n THEN s ELSE SubSeq(s, 1, n)

\* a.slice(0, n) on an array
Take(a, n) == IF Len(a) <= n THEN a ELSE SubSeq(a, 1, n)

RECURSIVE JoinRange(_, _, _, _)
\* a[lo] sep ... sep a[hi], for lo <= hi (the halves are joined in order)
JoinRange(a, sep, lo, hi) ==
  IF lo = hi THEN a[lo]
  ELSE LET mid == (lo + hi) \div 2
       IN  JoinRange(a, sep, lo, mid) \o sep \o JoinRange(a, sep, mid + 1, hi)

\* a.join(sep)
Join(a, sep) == IF Len(a) = 0 THEN "" ELSE JoinRange(a, sep, 1, Len(a))

(***************************************************************************)
(* JSON text.  JSONStringify renders a value; JSONParse is its inverse on  *)
(* the texts the model can answer with, and a SyntaxError elsewhere.       *)
(***************************************************************************)
RECURSIVE JSONStringify(_)
\* strings of the model's answers hold no character that JSON escapes
JSONStringify(v) ==
  CASE v.t = "null" -> "null"
    [] v.t = "string" -> "\"" \o v.s \o "\""
    [] v.t = "number" -> ToString(v.n)
    [] v.t = "array" ->
         "[" \o Join([i \in 1..Len(v.a) |-> JSONStringify(v.a[i])], ",") \o "]"
    [] v.t = "object" ->
         "{" \o Join([i \in 1..Len(v.o) |->
                        "\"" \o v.o[i][1] \o "\":" \o JSONStringify(v.o[i][2])], ",") \o "}"

(***************************************************************************)
(* IEEE-754 doubles of the report arithmetic: 0, or sig * 2^exp, where the *)
(* 53-bit significand sig is a leading 1 followed by four limbs of 13 bits *)
(* (base 8192), most significant first.  The operands of the report        *)
(* arithmetic are counts and minutes below 2^17, so every intermediate     *)
(* value of the limb arithmetic stays below 2^31.                          *)
(***************************************************************************)
LimbBase == 8192
LimbBits == 13
SigBits == 53

FZero == [zero |-> TRUE, sig |-> <<>>, exp |-> 0]

RECURSIVE Pow2(_)
Pow2(n) == IF n = 0 THEN 1 ELSE 2 * Pow2(n - 1)

RECURSIVE BitLen(_)
\* the number of bits of n > 0
BitLen(n) == IF n < 2 THEN 1 ELSE 1 + BitLen(n \div 2)

RECURSIVE IncSig(_, _)
\* sig + 1, carrying from limb i upwards
IncSig(sig, i) ==
  IF sig[i] + 1 < (IF i = 1 THEN 2 ELSE LimbBase) THEN [sig EXCEPT ![i] = @ + 1]
  ELSE IF i = 1 THEN [sig EXCEPT ![1] = 2]
  ELSE IncSig([sig EXCEPT ![i] = 0], i - 1)

\* round to nearest, ties to even: the kept significand, the first dropped
\* bit (guard) and whether any later dropped bit is set (sticky)
RoundNearestEven(sig, exp, guard, sticky) ==
  LET up == guard = 1 /\ (sticky \/ sig[Len(sig)] % 2 = 1)
      inc == IncSig(sig, Len(sig))
  IN  IF ~up THEN [zero |-> FALSE, sig |-> sig, exp |-> exp]
      ELSE IF inc[1] = 1 THEN [zero |-> FALSE, sig |-> inc, exp |-> exp]
      ELSE [zero |-> FALSE, sig |-> <<1, 0, 0, 0, 0>>, exp |-> exp + 1]

RECURSIVE ShiftUp(_, _)
\* least s >= 0 with  a < b * 2^(s+1)
ShiftUp(a, b) == IF a < 2 * b THEN 0 ELSE 1 + ShiftUp(a, 2 * b)

RECURSIVE ShiftDown(_, _)
\* least s >= 0 with  a * 2^s >= b
ShiftDown(a, b) == IF a >= b THEN 0 ELSE 1 + ShiftDown(2 * a, b)

RECURSIVE DivLimbs(_, _, _)
\* long division: the next n limbs of the quotient r / B (r < B), and the remainder
DivLimbs(r, B, n) ==
  IF n = 0 THEN <<<<>>, r>>
  ELSE LET rest == DivLimbs((r * LimbBase) % B, B, n - 1)
       IN  <<<<(r * LimbBase) \div B>> \o rest[1], rest[2]>>

\* a / b for integers a >= 0 and b > 0 (both exact as doubles), correctly rounded
FDiv(a, b) ==
  IF a = 0 THEN FZero
  ELSE LET down == ShiftDown(a, b)
           A == a * Pow2(down)
           up == ShiftUp(A, b)
           B == b * Pow2(up)
           \* A / B is in [1, 2): the leading bit is 1
           q == DivLimbs(A - B, B, 4)
           r == q[2]
       IN  RoundNearestEven(<<1>> \o q[1], up - down - (SigBits - 1),
                            IF 2 * r >= B THEN 1 ELSE 0,
                            (2 * r) % B # 0)

RECURSIVE MulLimbs(_, _, _, _)
\* sig * k: <<the product's top part (from the leading 1), its four low limbs>>
MulLimbs(sig, k, i, carry) ==
  IF i = 1 THEN <<sig[1] * k + carry, <<>>>>
  ELSE LET t == sig[i] * k + carry
           rest == MulLimbs(sig, k, i - 1, t \div LimbBase)
       IN  <<rest[1], rest[2] \o <<t % LimbBase>>>>

RECURSIVE ShiftLimbs(_, _, _, _)
\* the limbs of (rem * 2^52 + limbs) shifted right by e bits, and the bits dropped
ShiftLimbs(limbs, e, i, rem) ==
  IF i > Len(limbs) THEN <<<<>>, rem>>
  ELSE LET cur == rem * LimbBase + limbs[i]
           rest == ShiftLimbs(limbs, e, i + 1, cur % Pow2(e))
       IN  <<<<cur \div Pow2(e)>> \o rest[1], rest[2]>>

\* x * k for a double x >= 0 and an integer 0 < k < 2^13, correctly rounded
FMul(x, k) ==
  IF x.zero THEN FZero
  ELSE LET p == MulLimbs(x.sig, k, Len(x.sig), 0)
           e == BitLen(p[1]) - 1
           sh == ShiftLimbs(p[2], e, 1, p[1] % Pow2(e))
       IN  IF e = 0 THEN [zero |-> FALSE, sig |-> <<1>> \o p[2], exp |-> x.exp]
           ELSE RoundNearestEven(<<1>> \o sh[1], x.exp + e,
                                 sh[2] \div Pow2(e - 1),
                                 sh[2] % Pow2(e - 1) # 0)

\* Math.round(x) for a double 0 <= x < 2^26: the nearest integer, a tie upwards.
\* twice is floor(2x), read off the leading 1 + 13j bits of the significand.
MathRound(x) ==
  IF x.zero THEN 0
  ELSE LET n == SigBits + x.exp
           j == IF n + 1 <= 1 + LimbBits THEN 1 ELSE 2
           lead == IF j = 1 THEN LimbBase + x.sig[2]
                   ELSE (LimbBase + x.sig[2]) * LimbBase + x.sig[3]
           twice == lead \div Pow2(1 + LimbBits * j - (n + 1))
       IN  IF n < 0 THEN 0 ELSE (twice \div 2) + (twice % 2)

(***************************************************************************)
(* Conversion to text.                                                     *)
(***************************************************************************)
\* String(v) of a value JSON can hold, as JSON.parse applies it to its argument
ToStringJS(v) ==
  CASE v.t = "string" -> v.s
    [] v.t = "number" -> ToString(v.n)
    [] v.t = "null" -> "null"
    [] v.t = "undefined" -> "undefined"
    [] v.t = "array" -> Join([i \in 1..Len(v.a) |-> IF v.a[i].t = "string" THEN v.a[i].s ELSE ""], ",")
    [] v.t = "object" -> "[object Object]"

(***************************************************************************)
(* Errors and completions: a step of code either returns a value or throws *)
(* an error.                                                               *)
(***************************************************************************)
Error(name, message) == [name |-> name, message |-> message]
Return(v) == [threw |-> FALSE, value |-> v]
Throw(e) == [threw |-> TRUE, error |-> e]

\* the messages of the errors the engine itself raises (V8's wording)
TypeErrorReading(of, key) ==
  Error("TypeError", "Cannot read properties of " \o of \o " (reading '" \o key \o "')")
SyntaxErrorOf(text) ==
  Error("SyntaxError", IF text = "" THEN "Unexpected end of JSON input"
                       ELSE "Unexpected token in JSON: " \o Slice(text, 40))

(***************************************************************************)
(* What the external model can answer: the content texts.                  *)
(***************************************************************************)
validTypes ==
  <<"coding", "browsing", "documentation", "communication",
    "meeting", "design", "entertainment", "other">>

ValidTypeSet == {validTypes[i] : i \in 1..Len(validTypes)}

\* the members of an object: the pairs whose value is present
Members(pairs) == SelectSeq(pairs, LAMBDA p : p[2].t # "undefined")

ActivityAnswers ==
  {Str(a) : a \in ValidTypeSet} \cup {Undefined, Null, Num(1), Str(""), Str("gaming"), Str("Coding")}

AnalysisAnswers ==
  {Obj(Members(<<<<"app_name", Str("VSCode")>>, <<"activity_type", a>>,
                 <<"description", Str("editing gemini.ts")>>,
                 <<"detailed_content", Str("The editor shows callOpenAI")>>>>)) :
     a \in ActivityAnswers}
  \cup
  {Obj(Members(<<<<"app_name", n>>, <<"activity_type", Str("meeting")>>,
                 <<"description", d>>, <<"detailed_content", d>>>>)) :
     n \in {Undefined, Str(""), Num(7)}, d \in {Undefined, Str("")}}

LogItems(n) == [i \in 1..n |-> Str("item " \o ToString(i))]

ReportAnswers ==
  {Obj(Members(<<<<"summary", Str("Wrote the report module")>>, <<"activity_log", l>>>>)) :
     l \in {Undefined, Null, Str("coding, review")} \cup {Arr(LogItems(n)) : n \in 0..MaxLogLen}}
  \cup
  {Obj(Members(<<<<"summary", s>>, <<"activity_log", Arr(LogItems(2))>>>>)) :
     s \in {Undefined, Null, Str(""), Num(0)}}

\* the values whose JSON text the model can answer with
ContentValues ==
  AnalysisAnswers \cup ReportAnswers
    \cup {Obj(<<>>), Null, Arr(<<>>), Num(5), Str("done")}

\* texts that are not JSON
MalformedTexts == {"", "Sorry, I cannot help with that", "{\"summary\": \"Wrote"}

ParseTable ==
  [txt \in {JSONStringify(v) : v \in ContentValues} |->
     CHOOSE v \in ContentValues : JSONStringify(v) = txt]

\* JSON.parse(text)
JSONParse(text) ==
  IF text \in DOMAIN ParseTable THEN Return(ParseTable[text])
  ELSE Throw(SyntaxErrorOf(text))

ContentTexts == DOMAIN ParseTable \cup MalformedTexts

(***************************************************************************)
(* What the endpoint can do with one request: the fetch outcomes.          *)
(***************************************************************************)
Envelope(content) ==
  Obj(<<<<"choices", Arr(<<Obj(<<<<"message", Obj(Members(<<<<"content", content>>>>))>>>>)>>)>>>>)

\* success bodies: response.json() either throws or yields data
SuccessBodies ==
  {Return(Envelope(Str(c))) : c \in ContentTexts}
  \cup {Return(Envelope(c)) : c \in {Undefined, Null, Num(5), Obj(<<>>)}}
  \cup {Return(d) : d \in
          {Null, Obj(<<>>), Obj(<<<<"choices", Null>>>>), Obj(<<<<"choices", Arr(<<>>)>>>>),
           Obj(<<<<"choices", Arr(<<Null>>)>>>>), Obj(<<<<"choices", Arr(<<Obj(<<>>)>>)>>>>),
           Obj(<<<<"choices", Arr(<<Obj(<<<<"message", Null>>>>)>>)>>>>),
           Obj(<<<<"error", Str("bad request")>>>>)}}
  \cup {Throw(SyntaxErrorOf("<html>Bad gateway</html>"))}

\* failure bodies: response.text()
FailureTexts ==
  {"", "{\"error\":{\"message\":\"Rate limit reached\"}}",
   "<html><body><h1>502 Bad Gateway</h1><p>The server is temporarily unavailable</p></body></html>"}

FetchOutcomes ==
  {[kind |-> "rejected", error |-> Error("TypeError", "fetch failed")]}
  \cup {[kind |-> "response", ok |-> FALSE, text |-> b] : b \in FailureTexts}
  \cup {[kind |-> "response", ok |-> TRUE, json |-> b] : b \in SuccessBodies}

(***************************************************************************)
(* callOpenAI, in its two parts: up to the fetch, and from the response.   *)
(***************************************************************************)
OPENAI_API_URL == "https://api.openai.com/v1/chat/completions"

\* the confidence of a record, in tenths: 8 is 0.8
ModelConfidence == 8
FallbackConfidence == 0

\* the request messages: one user turn, with the image when there is one
Messages(prompt, imageBase64) ==
  IF Truthy(imageBase64)
  THEN <<[role |-> "user",
          content |-> <<[type |-> "image_url",
                         image_url |-> [url |-> "data:image/jpeg;base64," \o imageBase64.s,
                                        detail |-> "high"]],
                        [type |-> "text", text |-> prompt]>>]>>
  ELSE <<[role |-> "user", content |-> prompt]>>

\* lines 23-59: throws without a key, and otherwise issues the one request
CallOpenAIRequest(key, prompt, imageBase64) ==
  IF ~Truthy(key)
  THEN Throw(Error("Error", "OPENAI_API_KEY is not configured"))
  ELSE Return([url |-> OPENAI_API_URL,
               method |-> "POST",
               authorization |-> "Bearer " \o key.s,
               body |-> [model |-> "gpt-5-mini-2025-08-07",
                         messages |-> Messages(prompt, imageBase64),
                         max_completion_tokens |-> 2000,
                         response_format |-> [type |-> "json_object"]]])

\* line 67: data.choices[0]?.message?.content || '{}'
FirstContent(data) ==
  IF Nullish(data) THEN Throw(TypeErrorReading(data.t, "choices"))
  ELSE LET choices == Get(data, "choices")
       IN  IF Nullish(choices) THEN Throw(TypeErrorReading(choices.t, "0"))
           ELSE LET first == GetIndex0(choices)
                    message == IF Nullish(first) THEN Undefined ELSE Get(first, "message")
                    content == IF Nullish(message) THEN Undefined ELSE Get(message, "content")
                IN  Return(OrElse(content, Str("{}")))

\* lines 47-67, from the settling of the fetch
CallOpenAIResponse(outcome) ==
  IF outcome.kind = "rejected" THEN Throw(outcome.error)
  ELSE IF ~outcome.ok THEN Throw(Error("Error", "OpenAI API error: " \o outcome.text))
  ELSE IF outcome.json.threw THEN outcome.json
  ELSE FirstContent(outcome.json.value)

(***************************************************************************)
(* validateActivityType and analyzeScreenshot.                             *)
(***************************************************************************)
\* a validator that accepts every text
validateActivityTypeLoose(type) ==
  IF type.t = "string" THEN type.s ELSE "other"

validateActivityType(type) ==
  IF type.t = "string" /\ \E i \in 1..Len(validTypes) : validTypes[i] = type.s
  THEN type.s
  ELSE "other"

AnalyzePrompt ==
  "Analyze this screenshot and record in detail what the user is doing. Return JSON:\n\n{\n"
  \o "  \"app_name\": \"application name\",\n"
  \o "  \"activity_type\": \"coding/browsing/documentation/communication/meeting/design/entertainment/other\",\n"
  \o "  \"description\": \"one sentence on what is being done\",\n"
  \o "  \"detailed_content\": \"a detailed record of the screen, 200-400 characters, specific\"\n}"

\* the try block reading result?.app_name: a null result takes the defaults
AnalyzeTryOptional(response) ==
  LET parsed == JSONParse(ToStringJS(response))
      result == IF parsed.value.t = "null" THEN Undefined ELSE parsed.value
  IN  IF parsed.threw THEN parsed
      ELSE Return([app_name |-> OrElse(Get(result, "app_name"), Str("Unknown")),
                   activity_type |-> validateActivityType(Get(result, "activity_type")),
                   description |-> OrElse(Get(result, "description"), Str("")),
                   detailed_content |-> OrElse(Get(result, "detailed_content"), Str("")),
                   tags |-> <<>>,
                   confidence |-> ModelConfidence,
                   raw_response |-> response])

\* lines 87-97: the try block from the value callOpenAI returned
AnalyzeTry(response) ==
  LET parsed == JSONParse(ToStringJS(response))
      result == parsed.value
  IN  IF parsed.threw THEN parsed
      ELSE IF Nullish(result) THEN Throw(TypeErrorReading(result.t, "app_name"))
      ELSE Return([app_name |-> OrElse(Get(result, "app_name"), Str("Unknown")),
                   activity_type |-> validateActivityType(Get(result, "activity_type")),
                   description |-> OrElse(Get(result, "description"), Str("")),
                   detailed_content |-> OrElse(Get(result, "detailed_content"), Str("")),
                   tags |-> <<>>,
                   confidence |-> ModelConfidence,
                   raw_response |-> response])

\* the catch block with the confidence of the try block
AnalyzeCatchConfident(error) ==
  LET errorMessage == error.message
  IN  [app_name |-> Str("Unknown"),
       activity_type |-> "other",
       description |-> Str("Analysis failed: " \o Slice(errorMessage, 50)),
       detailed_content |-> Str(errorMessage),
       tags |-> <<>>,
       confidence |-> ModelConfidence,
       raw_response |-> Str(errorMessage)]

\* lines 98-110: the catch block
AnalyzeCatch(error) ==
  LET errorMessage == error.message
  IN  [app_name |-> Str("Unknown"),
       activity_type |-> "other",
       description |-> Str("Analysis failed: " \o Slice(errorMessage, 50)),
       detailed_content |-> Str(errorMessage),
       tags |-> <<>>,
       confidence |-> FallbackConfidence,
       raw_response |-> Str(errorMessage)]

\* analyzeScreenshot with the parse outside the try: an error escapes
AnalyzeFinishUncaught(call) ==
  LET try == IF call.threw THEN call ELSE AnalyzeTry(call.value)
  IN  IF try.threw
      THEN [outcome |-> "raised", path |-> "none", value |-> try.error]
      ELSE [outcome |-> "returned", path |-> "model", value |-> try.value]

\* lines 85-111: what the call completed with decides the block that returns
AnalyzeFinish(call) ==
  LET try == IF call.threw THEN call ELSE AnalyzeTry(call.value)
  IN  IF try.threw
      THEN [outcome |-> "returned", path |-> "fallback", value |-> AnalyzeCatch(try.error)]
      ELSE [outcome |-> "returned", path |-> "model", value |-> try.value]

(***************************************************************************)
(* generateReport.                                                         *)
(***************************************************************************)
\* a Map is the sequence of its <<key, value>> entries in insertion order
MapHas(m, k) == \E i \in 1..Len(m) : m[i][1] = k
MapGet(m, k) == m[CHOOSE i \in 1..Len(m) : m[i][1] = k][2]
\* a set that moves an updated key to the end of the map
MapSetMovesKey(m, k, v) ==
  Append(SelectSeq(m, LAMBDA e : e[1] # k), <<k, v>>)

MapSet(m, k, v) ==
  IF MapHas(m, k)
  THEN [i \in 1..Len(m) |-> IF m[i][1] = k THEN <<k, v>> ELSE m[i]]
  ELSE Append(m, <<k, v>>)
MapKeys(m) == [i \in 1..Len(m) |-> m[i][1]]

\* (m.get(k) || 0) + 1
Bump(m, k) == MapSet(m, k, (IF MapHas(m, k) THEN MapGet(m, k) ELSE 0) + 1)

RECURSIVE CountBy(_, _, _, _, _)
\* lines 124-128: the loop over analyses[lo..hi], in order, from the map m.
\* The range is folded half by half, the first half's map being complete
\* before the second half starts from it.
CountBy(analyses, f, lo, hi, m) ==
  IF lo > hi THEN m
  ELSE IF lo = hi THEN Bump(m, analyses[lo][f])
  ELSE LET mid == (lo + hi) \div 2
           left == CountBy(analyses, f, lo, mid, m)
       IN  IF Len(left) > 0 THEN CountBy(analyses, f, mid + 1, hi, left) ELSE left

\* the record count without its floor
TotalCountUnfloored(analyses) == Len(analyses)

\* line 130: analyses.length || 1
TotalCount(analyses) == IF Len(analyses) # 0 THEN Len(analyses) ELSE 1

\* lines 133-139
TimeBreakdownOf(activityStats, sessionDurationMinutes, totalCount) ==
  [activity \in {activityStats[i][1] : i \in 1..Len(activityStats)} |->
     LET count == MapGet(activityStats, activity)
         percentage == FMul(FDiv(count, totalCount), 100)
     IN  [duration_minutes |-> MathRound(FDiv(sessionDurationMinutes * count, totalCount)),
          percentage |-> MathRound(percentage)]]

\* lines 142-144
DigestLine(a) ==
  "[" \o a.app_name \o "] " \o a.description \o ": "
      \o (IF Slice(a.detailed_content, 200) # "" THEN Slice(a.detailed_content, 200) ELSE "")
Contents(analyses) ==
  LET first == Take(analyses, 30)
  IN  Join([i \in 1..Len(first) |-> DigestLine(first[i])], "\n")

\* lines 146-157
ReportPrompt(analyses, sessionDurationMinutes) ==
  "Summarize the following work records, return JSON:\n\nDuration: " \o ToString(sessionDurationMinutes)
  \o " minutes\nRecords: " \o ToString(Len(analyses))
  \o "\n\nActivities:\n" \o Contents(analyses)
  \o "\n\n{\n  \"summary\": \"summary of the work of the day, 5-8 sentences, specific\",\n"
  \o "  \"activity_log\": [\"main activity 1\", \"main activity 2\", \"...5-10 items\"]\n}"

\* lines 161-170: the try block from the value callOpenAI returned
ReportTry(response, timeBreakdown, now) ==
  LET parsed == JSONParse(ToStringJS(response))
      result == parsed.value
  IN  IF parsed.threw THEN parsed
      ELSE IF Nullish(result) THEN Throw(TypeErrorReading(result.t, "summary"))
      ELSE Return([summary |-> OrElse(Get(result, "summary"), Str("Work of the day done")),
                   highlights |-> IF Get(result, "activity_log").t = "array"
                                  THEN Get(result, "activity_log").a ELSE <<>>,
                   time_breakdown |-> timeBreakdown,
                   productivity_score |-> 0,
                   suggestions |-> <<>>,
                   generated_at |-> now])

\* line 178
FallbackSummary(analyses, sessionDurationMinutes, topApps) ==
  "Worked " \o ToString(sessionDurationMinutes) \o " minutes today, "
  \o ToString(Len(analyses)) \o " records in total. Used "
  \o (IF Join(Take(topApps, 3), ",") # "" THEN Join(Take(topApps, 3), ",") ELSE "several applications")
  \o "."

\* line 179
FallbackHighlights(topApps) ==
  [i \in 1..Len(Take(topApps, 5)) |-> Str("Used " \o topApps[i])]

\* lines 171-184: the catch block
ReportCatch(analyses, sessionDurationMinutes, appStats, timeBreakdown, now) ==
  LET topApps == MapKeys(appStats)
  IN  [summary |-> Str(FallbackSummary(analyses, sessionDurationMinutes, topApps)),
       highlights |-> FallbackHighlights(topApps),
       time_breakdown |-> timeBreakdown,
       productivity_score |-> 0,
       suggestions |-> <<>>,
       generated_at |-> now]

\* lines 159-185: what the call completed with decides the block that returns
ReportFinish(call, analyses, sessionDurationMinutes, appStats, timeBreakdown, now) ==
  LET try == IF call.threw THEN call ELSE ReportTry(call.value, timeBreakdown, now)
  IN  IF try.threw
      THEN [outcome |-> "returned", path |-> "fallback",
            value |-> ReportCatch(analyses, sessionDurationMinutes, appStats, timeBreakdown, now)]
      ELSE [outcome |-> "returned", path |-> "model", value |-> try.value]

(***************************************************************************)
(* The inputs of one invocation.                                           *)
(***************************************************************************)
\* process.env.OPENAI_API_KEY: unset, empty or set
Keys == {Undefined, Str(""), Str("sk-test")}

Images == {Str(""), Str("aGVsbG8=")}

\* what new Date().toISOString() reads
Timestamps == {"2025-01-01T09:00:00.000Z"}

AppPool == <<"VSCode", "Chrome", "Slack", "Figma", "Zoom", "Terminal", "Notion", "Mail">>

Chunk == "0123456789012345678901234567890123456789012345678901234567890123456789"
\* a detailed_content of 215 characters
LongText == Chunk \o Chunk \o Chunk \o "tail:"

SmallRecords ==
  {[app_name |-> a, activity_type |-> t, description |-> "reading", detailed_content |-> "a page"] :
     a \in {"", "VSCode"}, t \in {"coding", "other"}}

\* every list of at most MaxLen small records
ShortLists == UNION {[1..n -> SmallRecords] : n \in 0..MaxLen}

\* n1 records of coding then n2 of browsing, over the first k application names in turn
RunList(n1, n2, k) ==
  [i \in 1..(n1 + n2) |->
     [app_name |-> AppPool[((i - 1) % k) + 1],
      activity_type |-> IF i <= n1 THEN "coding" ELSE "browsing",
      description |-> "step " \o ToString(i),
      detailed_content |-> IF i = 1 THEN LongText ELSE ""]]

RunLists(maxRun, maxApps) ==
  {RunList(n1, n2, k) : n1 \in 0..maxRun, n2 \in 0..maxRun, k \in 1..maxApps}

Durations == (0..MaxDuration) \cup {60}

(***************************************************************************)
(* The state of one invocation of analyzeScreenshot or generateReport.     *)
(***************************************************************************)
VARIABLES
  OPENAI_API_KEY,          \* the module's constant, read from the environment
  op,                      \* the operation invoked
  imageBase64,             \* analyzeScreenshot's argument
  analyses,                \* generateReport's arguments
  sessionDurationMinutes,
  pc,                      \* "called", "awaiting" (the fetch) or "done"
  requests,                \* the requests issued to the endpoint, in order
  appStats,                \* generateReport's locals that live across the await
  timeBreakdown,
  fetched,                 \* what the fetch settled with
  response,                \* what callOpenAI completed with: a value or an error
  outcome,                 \* "pending", "returned" or "raised"
  path,                    \* the block that returned: "none", "model" or "fallback"
  result                   \* the record returned

vars == <<OPENAI_API_KEY, op, imageBase64, analyses, sessionDurationMinutes,
          pc, requests, appStats, timeBreakdown, fetched, response,
          outcome, path, result>>

Pending == [pending |-> TRUE]

InitOf(lists, durations) ==
  /\ OPENAI_API_KEY \in Keys
  /\ \/ /\ op = "analyzeScreenshot"
        /\ imageBase64 \in Images
        /\ analyses = <<>>
        /\ sessionDurationMinutes = 0
     \/ /\ op = "generateReport"
        /\ imageBase64 = Undefined
        /\ analyses \in lists
        /\ sessionDurationMinutes \in durations
  /\ pc = "called"
  /\ requests = <<>>
  /\ appStats = <<>>
  /\ timeBreakdown = <<>>
  /\ fetched = Pending
  /\ response = Pending
  /\ outcome = "pending"
  /\ path = "none"
  /\ result = Pending

Init == InitOf(ShortLists \cup RunLists(MaxRun, MaxApps), Durations)

InitRuns == InitOf(RunLists(MaxLongRun, 1), {60})

\* the function returns (or raises) and the invocation is over
Finish(call, fin) ==
  /\ pc' = "done"
  /\ response' = call
  /\ outcome' = fin.outcome
  /\ path' = fin.path
  /\ result' = fin.value

\* callOpenAI issued its request and the caller awaits it
Await(request) ==
  /\ pc' = "awaiting"
  /\ requests' = Append(requests, request)
  /\ UNCHANGED <<fetched, response, outcome, path, result>>

\* analyzeScreenshot from its call to the await of the fetch (lines 76-86, 23-59)
AnalyzeScreenshotCall ==
  /\ pc = "called"
  /\ op = "analyzeScreenshot"
  /\ LET call == CallOpenAIRequest(OPENAI_API_KEY, AnalyzePrompt, imageBase64)
     IN  IF call.threw
         THEN Finish(call, AnalyzeFinish(call)) /\ UNCHANGED <<requests, fetched>>
         ELSE Await(call.value)
  /\ UNCHANGED <<OPENAI_API_KEY, op, imageBase64, analyses, sessionDurationMinutes,
                 appStats, timeBreakdown>>

\* analyzeScreenshot retrying a failed call once
AnalyzeScreenshotRetries ==
  /\ pc = "awaiting"
  /\ op = "analyzeScreenshot"
  /\ \E settled \in FetchOutcomes :
       /\ fetched' = settled
       /\ IF CallOpenAIResponse(settled).threw /\ Len(requests) < 2
          THEN /\ requests' = Append(requests, requests[1])
               /\ UNCHANGED <<pc, response, outcome, path, result>>
          ELSE /\ Finish(CallOpenAIResponse(settled), AnalyzeFinish(CallOpenAIResponse(settled)))
               /\ UNCHANGED requests
  /\ UNCHANGED <<OPENAI_API_KEY, op, imageBase64, analyses, sessionDurationMinutes,
                 appStats, timeBreakdown>>

\* analyzeScreenshot from the settling of the fetch to its return (lines 61-67, 87-111)
AnalyzeScreenshotResume ==
  /\ pc = "awaiting"
  /\ op = "analyzeScreenshot"
  /\ \E settled \in FetchOutcomes :
       /\ fetched' = settled
       /\ Finish(CallOpenAIResponse(settled), AnalyzeFinish(CallOpenAIResponse(settled)))
  /\ UNCHANGED <<OPENAI_API_KEY, op, imageBase64, analyses, sessionDurationMinutes,
                 requests, appStats, timeBreakdown>>

\* generateReport from its call to the await of the fetch (lines 121-160, 23-59)
GenerateReportCall ==
  /\ pc = "called"
  /\ op = "generateReport"
  /\ LET activityStats == CountBy(analyses, "activity_type", 1, Len(analyses), <<>>)
         apps == CountBy(analyses, "app_name", 1, Len(analyses), <<>>)
         breakdown == TimeBreakdownOf(activityStats, sessionDurationMinutes,
                                      TotalCount(analyses))
         call == CallOpenAIRequest(OPENAI_API_KEY,
                                   ReportPrompt(analyses, sessionDurationMinutes), Undefined)
     IN  /\ appStats' = apps
         /\ timeBreakdown' = breakdown
         /\ IF call.threw
            THEN \E now \in Timestamps :
                   /\ Finish(call, ReportFinish(call, analyses, sessionDurationMinutes,
                                                apps, breakdown, now))
                   /\ UNCHANGED <<requests, fetched>>
            ELSE Await(call.value)
  /\ UNCHANGED <<OPENAI_API_KEY, op, imageBase64, analyses, sessionDurationMinutes>>

\* generateReport from the settling of the fetch to its return (lines 61-67, 161-185)
GenerateReportResume ==
  /\ pc = "awaiting"
  /\ op = "generateReport"
  /\ \E settled \in FetchOutcomes, now \in Timestamps :
       /\ fetched' = settled
       /\ Finish(CallOpenAIResponse(settled),
                 ReportFinish(CallOpenAIResponse(settled), analyses, sessionDurationMinutes,
                              appStats, timeBreakdown, now))
  /\ UNCHANGED <<OPENAI_API_KEY, op, imageBase64, analyses, sessionDurationMinutes,
                 requests, appStats, timeBreakdown>>

Next ==
  \/ AnalyzeScreenshotCall
  \/ AnalyzeScreenshotResume
  \/ GenerateReportCall
  \/ GenerateReportResume

Spec == Init /\ [][Next]_vars

SpecRuns == InitRuns /\ [][Next]_vars

(***************************************************************************)
(* What the claims speak of, stated apart from the code's own operators.   *)
(***************************************************************************)
Done == pc = "done"
AnalyzeDone == pc = "done" /\ op = "analyzeScreenshot"
ReportDone == pc = "done" /\ op = "generateReport"

Contains(s, sub) ==
  \E i \in 1..(Len(s) - Len(sub) + 1) : SubSeq(s, i, i + Len(sub) - 1) = sub
StartsWith(s, pre) == Len(s) >= Len(pre) /\ SubSeq(s, 1, Len(pre)) = pre
EndsWith(s, suf) ==
  Len(s) >= Len(suf) /\ SubSeq(s, Len(s) - Len(suf) + 1, Len(s)) = suf

\* round-half-up of a / b in exact integer arithmetic
RoundHalfUp(a, b) == (2 * a + b) \div (2 * b)

TypeCount(list, type) ==
  Cardinality({i \in 1..Len(list) : list[i].activity_type = type})

\* the distinct application names of the list, in the order first seen
FirstSeenApps(list) ==
  LET firsts == {i \in 1..Len(list) :
                   \A j \in 1..(i - 1) : list[j].app_name # list[i].app_name}
  IN  [k \in 1..Cardinality(firsts) |->
         list[CHOOSE i \in firsts : Cardinality({j \in firsts : j < i}) = k - 1].app_name]

Min(a, b) == IF a <= b THEN a ELSE b

Present(v) == v.t \notin {"undefined", "null"}

AnalysisFields ==
  {"app_name", "activity_type", "description", "detailed_content", "tags",
   "confidence", "raw_response"}
ReportFields ==
  {"summary", "highlights", "time_breakdown", "productivity_score", "suggestions",
   "generated_at"}

ValidAnalysis(r) ==
  /\ DOMAIN r = AnalysisFields
  /\ Present(r.app_name) /\ Present(r.description) /\ Present(r.detailed_content)
  /\ Present(r.raw_response)
  /\ r.activity_type \in ValidTypeSet
  /\ r.tags = <<>>
  /\ r.confidence \in {FallbackConfidence, ModelConfidence}

ValidReport(r) ==
  /\ DOMAIN r = ReportFields
  /\ Present(r.summary)
  /\ DOMAIN r.highlights = 1..Len(r.highlights)
  /\ DOMAIN r.time_breakdown \subseteq ValidTypeSet
  /\ \A a \in DOMAIN r.time_breakdown :
       /\ r.time_breakdown[a].duration_minutes \in Nat
       /\ r.time_breakdown[a].percentage \in 0..100
  /\ r.productivity_score = 0
  /\ r.suggestions = <<>>
  /\ r.generated_at \in Timestamps

\* the text callOpenAI returned, when it returned
Answer == ToStringJS(response.value)

\* the answer is JSON text of the requested shape
ExpectedKeys ==
  IF op = "analyzeScreenshot"
  THEN {"app_name", "activity_type", "description", "detailed_content"}
  ELSE {"summary", "activity_log"}
HasExpectedShape ==
  /\ ~JSONParse(Answer).threw
  /\ JSONParse(Answer).value.t = "object"
  /\ \A k \in ExpectedKeys : Get(JSONParse(Answer).value, k).t # "undefined"

\* the result is the fallback record of the operation
IsFallbackResult ==
  IF op = "analyzeScreenshot"
  THEN /\ result.confidence = FallbackConfidence
       /\ result.app_name = Str("Unknown")
       /\ result.activity_type = "other"
       /\ result.raw_response = result.detailed_content
  ELSE /\ StartsWith(result.summary.s, "Worked ")
       /\ result.highlights =
            [i \in 1..Min(5, Len(FirstSeenApps(analyses))) |->
               Str("Used " \o FirstSeenApps(analyses)[i])]

\* the summary names so many minutes and so many records
References(text, minutes, records) ==
  /\ Contains(text, ToString(minutes) \o " minutes")
  /\ Contains(text, ToString(records) \o " records")

\* data.choices[0].message.content, Undefined when any part of the way is missing
AnsweredContent(data) ==
  LET choices == IF Nullish(data) THEN Undefined ELSE Get(data, "choices")
      first == IF choices.t = "array" /\ Len(choices.a) > 0 THEN choices.a[1] ELSE Undefined
      message == IF Nullish(first) THEN Undefined ELSE Get(first, "message")
  IN  IF Nullish(message) THEN Undefined ELSE Get(message, "content")

(***************************************************************************)
(* The claims.                                                             *)
(***************************************************************************)

\* C1: whatever the external call does (no credential, transport failure,
\* non-success response, malformed or well-formed text), analyzeScreenshot and
\* generateReport return a record with every field of its shape and never raise.
C1_NeverRaises ==
  Done => /\ outcome = "returned"
          /\ IF op = "analyzeScreenshot" THEN ValidAnalysis(result) ELSE ValidReport(result)

\* C1 witness: an analysis whose fetch was rejected returned the fallback record
C1_Witness ==
  /\ AnalyzeDone
  /\ fetched # Pending /\ fetched.kind = "rejected"
  /\ outcome = "returned"
  /\ result.detailed_content = Str("fetch failed")

\* C2: the confidence of an analysis is 0 exactly on the fallback path and 0.8
\* on the other.
C2_ConfidenceTellsFallback ==
  AnalyzeDone =>
    /\ (result.confidence = 0) <=> (path = "fallback")
    /\ (path # "fallback") => (result.confidence = 8)

\* C2 witness: a fallback analysis (no credential, no request) with confidence 0
C2_Witness ==
  AnalyzeDone /\ path = "fallback" /\ requests = <<>> /\ result.confidence = 0

\* C3: the activity_type of every analysis is in the closed set; a value of the
\* model that is in the set is kept, any other (or none) becomes "other".
C3_ActivityTypeClosed ==
  AnalyzeDone =>
    /\ result.activity_type \in ValidTypeSet
    /\ (path = "fallback") => (result.activity_type = "other")
    /\ (path = "model") =>
         LET answered == Get(JSONParse(Answer).value, "activity_type")
         IN  IF answered.t = "string" /\ answered.s \in ValidTypeSet
             THEN result.activity_type = answered.s
             ELSE result.activity_type = "other"

\* C3 witness: the model answered a category outside the set and it became "other"
C3_Witness ==
  /\ AnalyzeDone /\ path = "model"
  /\ Get(JSONParse(Answer).value, "activity_type") = Str("gaming")
  /\ result.activity_type = "other"

\* C4: the time_breakdown of a report has an entry exactly for the activity
\* types of the input, with duration_minutes = round-half-up(duration * c / total)
\* and percentage = round-half-up(100 * c / total).
C4_TimeBreakdownExact ==
  ReportDone =>
    /\ DOMAIN result.time_breakdown =
         {analyses[i].activity_type : i \in 1..Len(analyses)}
    /\ \A type \in DOMAIN result.time_breakdown :
         LET c == TypeCount(analyses, type)
             total == Len(analyses)
         IN  /\ result.time_breakdown[type].duration_minutes =
                  RoundHalfUp(sessionDurationMinutes * c, total)
             /\ result.time_breakdown[type].percentage = RoundHalfUp(100 * c, total)

\* C5: the fallback report is built from local data: its summary holds the
\* duration and the record count and lists the first (at most 3) distinct
\* application names in first-seen order; its highlights are one entry for each
\* of the first (at most 5) distinct names, in that order.
C5_FallbackFromLocalData ==
  (ReportDone /\ path = "fallback") =>
    LET names == FirstSeenApps(analyses)
        listed == [i \in 1..Min(3, Len(names)) |-> names[i]]
        text == result.summary.s
    IN  /\ Contains(text, " " \o ToString(sessionDurationMinutes) \o " ")
        /\ Contains(text, " " \o ToString(Len(analyses)) \o " ")
        /\ EndsWith(text, "Used " \o (IF Join(listed, ",") = "" THEN "several applications"
                                       ELSE Join(listed, ",")) \o ".")
        /\ result.highlights =
             [i \in 1..Min(5, Len(names)) |-> Str("Used " \o names[i])]

\* C5 witness: a fallback report over more than 5 distinct names, one of them repeated
C5_Witness ==
  /\ ReportDone /\ path = "fallback"
  /\ Len(FirstSeenApps(analyses)) > 5
  /\ Len(analyses) > Len(FirstSeenApps(analyses))
  /\ Len(result.highlights) = 5

\* C6: the highlights of every report, model-derived or fallback, are between
\* 0 and 10 entries.
C6_HighlightsAtMostTen ==
  ReportDone => Len(result.highlights) \in 0..10

\* C7 as claimed: an answer that is not JSON, or not JSON of the expected shape,
\* ends in the fallback result.
C7_ShapelessAnswerFallsBack ==
  (Done /\ ~response.threw /\ ~HasExpectedShape) => (path = "fallback" /\ IsFallbackResult)

\* C7 as amended: an answer that is not JSON, or is the JSON literal null, ends in
\* the fallback result, as a configuration or provider error does; every other
\* JSON answer, whatever its shape, ends in the model-derived result.
C7_UnparsableAnswerFallsBack ==
  Done =>
    /\ response.threw => (path = "fallback" /\ IsFallbackResult)
    /\ ~response.threw =>
         IF JSONParse(Answer).threw \/ JSONParse(Answer).value = Null
         THEN path = "fallback" /\ IsFallbackResult
         ELSE path = "model"

\* C7 witness: the model answered text that is not JSON and the fallback was returned
C7_Witness ==
  /\ Done /\ ~response.threw
  /\ Answer \in MalformedTexts \ {""}
  /\ path = "fallback"

\* C8 as claimed: for no analyses and duration 0 the denominator is 1, the
\* time_breakdown is empty and the summary, on either path, references 0 records
\* and 0 minutes.
C8_EmptyReportNamesZero ==
  (ReportDone /\ analyses = <<>> /\ sessionDurationMinutes = 0) =>
    /\ TotalCount(analyses) = 1
    /\ result.time_breakdown = <<>>
    /\ result.summary.t = "string" /\ References(result.summary.s, 0, 0)

\* C8 as amended: for no analyses and duration 0 the denominator is 1 and the
\* time_breakdown is empty; the fallback summary references 0 records and 0
\* minutes; the model-derived summary is the model's own summary, or the fixed
\* default without one, and it is the prompt sent that names 0 and 0.
C8_EmptyReport ==
  (ReportDone /\ analyses = <<>> /\ sessionDurationMinutes = 0) =>
    /\ TotalCount(analyses) = 1
    /\ result.time_breakdown = <<>>
    /\ (path = "fallback") => References(result.summary.s, 0, 0)
    /\ (path = "model") =>
         /\ LET said == Get(JSONParse(Answer).value, "summary")
            IN  result.summary = IF Truthy(said) THEN said ELSE Str("Work of the day done")
         /\ Contains(requests[1].body.messages[1].content, "Duration: 0 minutes")
         /\ Contains(requests[1].body.messages[1].content, "Records: 0\n")

\* C8 witness: a model-derived report over no analyses and duration 0
C8_Witness ==
  /\ ReportDone /\ analyses = <<>> /\ sessionDurationMinutes = 0
  /\ path = "model"
  /\ result.summary = Str("Work of the day done")

\* C9: on a success response callOpenAI returns the first choice's message text
\* when there is one, and "{}" when the choices list, its first element, the
\* message or the content is missing.
C9_ContentOrEmptyObject ==
  (Done /\ fetched # Pending /\ fetched.kind = "response" /\ fetched.ok
        /\ ~fetched.json.threw /\ fetched.json.value.t = "object") =>
    LET content == AnsweredContent(fetched.json.value)
    IN  /\ (content.t = "string" /\ content.s # "") => (response = Return(content))
        /\ Nullish(content) => (response = Return(Str("{}")))

\* C10: an invocation issues at most one request, and only before it awaits; the
\* step after the request settles is terminal, in one of the two outcomes
\* (model-derived or fallback); nothing follows the end, no request above all.
C10_OneRequestTwoOutcomes ==
  [][/\ Len(requests') <= 1
     /\ (requests' # requests) => (pc = "called" /\ pc' = "awaiting")
     /\ (pc = "awaiting") => (pc' = "done")
     /\ (pc' = "done") => (outcome' = "returned" /\ path' \in {"model", "fallback"})
     /\ (pc' # "done") => (outcome' = "pending" /\ path' = "none")
     /\ pc # "done"]_vars

\* C10 witness: a report whose one request failed ended in the fallback
C10_Witness ==
  /\ ReportDone /\ Len(requests) = 1
  /\ response.threw
  /\ path = "fallback"

====
